---- MODULE Spec2Model ----
(***************************************************************************)
(* A model of chat.py: the ChatSession prompt construction, the            *)
(* personality store (load/save of personalities.json) and the ChatApp     *)
(* handlers with their worker threads and the queued response_ready        *)
(* signal.  Python str values are TLA+ strings; a Python list is a         *)
(* sequence; a (role, text) tuple is <<role, text>>; None is the string    *)
(* NONE where a key or a text is expected and 0 where a session is.        *)
(***************************************************************************)
EXTENDS Naturals, Sequences, FiniteSets

VARIABLES
    history,              \* SpecSession: ChatSession.history of the session under test
    adds,                 \* SpecSession: history-changing calls made so far
    op,                   \* the last operation performed (a trace of the call made)
    arg,                  \* its text argument
    ret,                  \* the str it returned ("" when it returns nothing)
    raised,               \* whether it raised
    personalities,        \* ChatApp.personalities: an insertion-ordered dict
    disk,                 \* personalities.json: [exists, chunks]
    list_current,         \* personality_list.currentItem(): a key or NONE
    current_persona_key,  \* ChatApp.current_persona_key
    chat_session,         \* ChatApp.chat_session: an index into sessions, 0 for None
    sessions,             \* the history of every ChatSession constructed so far
    input_enabled,        \* input_line.isEnabled()
    send_enabled,         \* send_btn.isEnabled()
    chat_display,         \* the lines appended to chat_display
    workers,              \* the worker threads started by send_message
    signals,              \* response_ready emissions queued for the main thread
    dialog                \* the message box the last handler showed ("" for none)

vars == <<history, adds, op, arg, ret, raised, personalities, disk, list_current,
          current_persona_key, chat_session, sessions, input_enabled,
          send_enabled, chat_display, workers, signals, dialog>>

sessionVars == <<history, adds>>
appVars == <<personalities, disk, list_current, current_persona_key, chat_session,
             sessions, input_enabled, send_enabled, chat_display, workers, signals>>

NONE == "<None>"

(***************************************************************************)
(* Bounds of the model.                                                    *)
(***************************************************************************)
MaxMiddle == 10   \* alternating user/assistant turns after them
MaxAdds == 2      \* history-changing calls made on the session under test
MaxStarts == 2    \* ChatSession objects the UI constructs
MaxSends == 2     \* messages the UI submits

MAX_EXCHANGES == 10

SysTexts == {"You are Nyx", "Be terse"}
Inputs == {"next", "hi"}
\* What the backend puts under choices[0].text (NONE: the key is missing).
RawResponses == {" ok\n", NONE}

(***************************************************************************)
(* str helpers.                                                            *)
(***************************************************************************)
IsSpace(c) == c \in {" ", "\n", "\t"}

RECURSIVE LStrip(_)
LStrip(s) ==
    IF Len(s) > 0 /\ IsSpace(SubSeq(s, 1, 1)) THEN LStrip(SubSeq(s, 2, Len(s))) ELSE s

RECURSIVE RStrip(_)
RStrip(s) ==
    IF Len(s) > 0 /\ IsSpace(SubSeq(s, Len(s), Len(s)))
    THEN RStrip(SubSeq(s, 1, Len(s) - 1)) ELSE s

\* str.strip()
Strip(s) == RStrip(LStrip(s))

\* sep.join(parts)
RECURSIVE Join(_, _)
Join(sep, parts) ==
    IF Len(parts) = 0 THEN ""
    ELSE IF Len(parts) = 1 THEN parts[1]
    ELSE parts[1] \o sep \o Join(sep, Tail(parts))

\* lst[-n:]
LastSlice(lst, n) ==
    IF n = 0 \/ Len(lst) <= n THEN lst ELSE SubSeq(lst, Len(lst) - n + 1, Len(lst))

\* lst[:n], the slice a windowing slip would take
FirstSlice(lst, n) ==
    IF Len(lst) <= n THEN lst ELSE SubSeq(lst, 1, n)

(***************************************************************************)
(* ChatSession.                                                            *)
(***************************************************************************)
IsSystem(t) == t[1] = "system"
NotSystem(t) == t[1] # "system"

add_message(h, role, text) == Append(h, <<role, text>>)

\* [msg for role, msg in self.history if role == "system"]
system_msgs(h) ==
    LET sys == SelectSeq(h, IsSystem) IN [i \in 1..Len(sys) |-> sys[i][2]]

\* [(role, text) for role, text in self.history if role != "system"]
user_msgs(h) == SelectSeq(h, NotSystem)

trimmed_history_first(h) == FirstSlice(user_msgs(h), MAX_EXCHANGES)

trimmed_history(h) == LastSlice(user_msgs(h), MAX_EXCHANGES)

prompt_part(t) == (IF t[1] = "user" THEN "User:" ELSE "Assistant:") \o " " \o t[2]

prompt_parts(h) ==
    LET tr == trimmed_history(h) IN [i \in 1..Len(tr) |-> prompt_part(tr[i])]

system_prefix_last(h) ==
    LET sys == system_msgs(h) IN IF Len(sys) > 0 THEN sys[Len(sys)] \o "\n" ELSE ""

\* (system_msgs[0] + "\n" if system_msgs else "")
system_prefix(h) ==
    LET sys == system_msgs(h) IN IF Len(sys) > 0 THEN sys[1] \o "\n" ELSE ""

prompt_suffix_nospace(new_input) == "\nUser: " \o new_input \o "\nAssistant:"

\* f"\nUser: {new_input}\nAssistant: "
prompt_suffix(new_input) == "\nUser: " \o new_input \o "\nAssistant: "

\* The history a _build_prompt that trimmed self.history in place would leave.
history_after_build_trim(h) == trimmed_history(h)

\* self.history once _build_prompt has returned: the method assigns nothing to it.
history_after_build(h) == h

\* _build_prompt: the str returned, and self.history afterwards.
build_prompt(h, new_input) ==
    [ret |-> system_prefix(h) \o Join("\n", prompt_parts(h)) \o prompt_suffix(new_input),
     history |-> history_after_build(h)]

\* result.get("choices", [{}])[0].get("text", "").strip()
response_text(raw) == Strip(IF raw = NONE THEN "" ELSE raw)

RAISE == "<raise>"
LlmOutcomes == RawResponses \cup {RAISE}

\* generate_response after a raising model call, had it recorded the error as a reply.
gen_finish_append_error(h, outcome) ==
    IF outcome = RAISE
    THEN [raised |-> TRUE, ret |-> "",
          history |-> add_message(h, "assistant", "[Error]")]
    ELSE [raised |-> FALSE, ret |-> response_text(outcome),
          history |-> add_message(h, "assistant", response_text(outcome))]

\* generate_response from the model call on (lines 75-78): the call raises and the
\* exception leaves the method, or its text is stripped, appended and returned.
gen_finish(h, outcome) ==
    IF outcome = RAISE
    THEN [raised |-> TRUE, ret |-> "", history |-> h]
    ELSE [raised |-> FALSE, ret |-> response_text(outcome),
          history |-> add_message(h, "assistant", response_text(outcome))]

\* generate_response as one call: full_prompt is what the model is handed.
generate_response(h, prompt, outcome) ==
    LET b == build_prompt(h, prompt)
        f == gen_finish(b.history, outcome)
    IN  [raised |-> f.raised, ret |-> f.ret, history |-> f.history,
         full_prompt |-> b.ret]

(***************************************************************************)
(* SpecSession: one ChatSession driven through its methods.  The initial   *)
(* history is at most one free turn followed by a run of alternating       *)
(* user/assistant turns with pairwise distinct texts; add_message,         *)
(* generate_response and reset then change it.                             *)
(***************************************************************************)
Turns == ({"system"} \X SysTexts) \cup {<<"user", "hi">>, <<"assistant", "yo">>}

\* How an initial history starts: with nothing, or with any one turn.
Heads == {<<>>} \cup {<<t>> : t \in Turns}

Digit == <<"0", "1", "2", "3", "4", "5", "6", "7", "8", "9">>

MiddleText(i) == "m" \o Digit[(i \div 10) + 1] \o Digit[(i % 10) + 1]

Middle(k) ==
    [i \in 1..k |-> <<IF i % 2 = 1 THEN "user" ELSE "assistant", MiddleText(i)>>]

AppIdle ==
    /\ personalities = <<>>
    /\ disk = [exists |-> FALSE, chunks |-> <<>>]
    /\ list_current = NONE
    /\ current_persona_key = NONE
    /\ chat_session = 0
    /\ sessions = <<>>
    /\ input_enabled = FALSE
    /\ send_enabled = FALSE
    /\ chat_display = <<>>
    /\ workers = <<>>
    /\ signals = <<>>
    /\ dialog = ""

InitSession ==
    /\ \E head \in Heads, k \in 0..MaxMiddle : history = head \o Middle(k)
    /\ adds = 0
    /\ op = "__init__"
    /\ arg = ""
    /\ ret = ""
    /\ raised = FALSE
    /\ AppIdle

AddMessage(role, text) ==
    /\ adds < MaxAdds
    /\ history' = add_message(history, role, text)
    /\ adds' = adds + 1
    /\ op' = "add_message"
    /\ arg' = text
    /\ ret' = ""
    /\ raised' = FALSE
    /\ UNCHANGED <<appVars, dialog>>

BuildPrompt(x) ==
    LET b == build_prompt(history, x) IN
    /\ history' = b.history
    /\ op' = "_build_prompt"
    /\ arg' = x
    /\ ret' = b.ret
    /\ raised' = FALSE
    /\ UNCHANGED <<adds, appVars, dialog>>

GenerateResponse(x, outcome) ==
    LET g == generate_response(history, x, outcome) IN
    /\ outcome = RAISE \/ adds < MaxAdds
    /\ history' = g.history
    /\ adds' = IF g.raised THEN adds ELSE adds + 1
    /\ op' = "generate_response"
    /\ arg' = x
    /\ ret' = g.ret
    /\ raised' = g.raised
    /\ UNCHANGED <<appVars, dialog>>

Reset ==
    /\ history # <<>>
    /\ history' = <<>>
    /\ op' = "reset"
    /\ arg' = ""
    /\ ret' = ""
    /\ raised' = FALSE
    /\ UNCHANGED <<adds, appVars, dialog>>

NextSession ==
    \/ \E t \in Turns : AddMessage(t[1], t[2])
    \/ \E x \in Inputs : BuildPrompt(x)
    \/ \E x \in Inputs, o \in LlmOutcomes : GenerateResponse(x, o)
    \/ Reset

SpecSession == InitSession /\ [][NextSession]_vars

(***************************************************************************)
(* The personality store.  A dict is a sequence of <<key, value>> pairs in *)
(* insertion order.  personalities.json is the sequence of chunks written  *)
(* to it: an opening chunk, one chunk per entry, a closing chunk.          *)
(***************************************************************************)
Keys(d) == {d[i][1] : i \in DOMAIN d}

DictGet(d, k) == d[CHOOSE i \in DOMAIN d : d[i][1] = k][2]

\* d[k] = v with no membership test before it: an existing entry is replaced.
DictSet(d, k, v) ==
    IF k \in Keys(d)
    THEN [i \in DOMAIN d |-> IF d[i][1] = k THEN <<k, v>> ELSE d[i]]
    ELSE Append(d, <<k, v>>)

\* d.pop(k, None)
DictPop(d, k) ==
    LET keep(e) == e[1] # k IN SelectSeq(d, keep)

\* json.dump(d, f, indent=4): the chunks written, in order.
Serialize(d) == <<<<"{">>>> \o d \o <<<<"}">>>>

WellFormed(chunks) ==
    /\ Len(chunks) >= 2
    /\ chunks[1] = <<"{">>
    /\ chunks[Len(chunks)] = <<"}">>
    /\ \A i \in 2..(Len(chunks) - 1) : Len(chunks[i]) = 2

\* load_personalities: {} when the file is absent or does not parse (with a warning).
load_personalities(file) ==
    IF ~file.exists THEN [value |-> <<>>, warning |-> FALSE]
    ELSE IF WellFormed(file.chunks)
    THEN [value |-> SubSeq(file.chunks, 2, Len(file.chunks) - 1), warning |-> FALSE]
    ELSE [value |-> <<>>, warning |-> TRUE]

\* How a save_personalities call on a dict of n entries can go: it succeeds, open()
\* raises, or a write raises once k of the n + 2 chunks are in the file.
SaveOutcomesUpTo(n) ==
    {<<"ok", 0>>, <<"open_raises", 0>>} \cup {<<"dump_raises", k>> : k \in 0..(n + 1)}

SaveOutcomes(d) == SaveOutcomesUpTo(Len(d))

\* save_personalities: open(PERSONALITY_FILE, "w") truncates the file before
\* json.dump writes; any exception becomes a warning.
save_personalities(file, d, outcome) ==
    IF outcome[1] = "ok"
    THEN [file |-> [exists |-> TRUE, chunks |-> Serialize(d)], warning |-> FALSE]
    ELSE IF outcome[1] = "open_raises"
    THEN [file |-> file, warning |-> TRUE]
    ELSE [file |-> [exists |-> TRUE, chunks |-> SubSeq(Serialize(d), 1, outcome[2])],
          warning |-> TRUE]

SAVE_WARNING == "Failed to save personalities"

(***************************************************************************)
(* PersonalityEditor.get_personality_data.                                 *)
(***************************************************************************)
\* val.split(","), then [x.strip() for x in ... if x.strip()]
RECURSIVE SplitComma(_, _)
SplitComma(s, cur) ==
    IF Len(s) = 0 THEN <<cur>>
    ELSE IF SubSeq(s, 1, 1) = "," THEN <<cur>> \o SplitComma(SubSeq(s, 2, Len(s)), "")
    ELSE SplitComma(SubSeq(s, 2, Len(s)), cur \o SubSeq(s, 1, 1))

StrippedItems(val) ==
    LET parts == SplitComma(val, "")
        stripped == [i \in 1..Len(parts) |-> Strip(parts[i])]
        nonEmpty(x) == x # ""
    IN  SelectSeq(stripped, nonEmpty)

\* The editor's widgets hold raw text; every field is stripped, interests and tags
\* are split on commas.
get_personality_data(raw) ==
    [name |-> Strip(raw.name), age |-> Strip(raw.age), race |-> Strip(raw.race),
     role |-> Strip(raw.role), gender |-> Strip(raw.gender),
     backstory |-> Strip(raw.backstory), mood |-> Strip(raw.mood),
     interests |-> StrippedItems(Strip(raw.interests)),
     dialogue_style |-> Strip(raw.dialogue_style),
     tags |-> StrippedItems(Strip(raw.tags)), avatar |-> raw.avatar]

RawNames == {"", " ", "a", " a ", "b"}
RawAges == {"1", " 2"}

EditorInput(n, a) ==
    [name |-> n, age |-> a, race |-> "elf", role |-> "", gender |-> "",
     backstory |-> "", mood |-> "calm", interests |-> "cats, , tea ",
     dialogue_style |-> "", tags |-> "", avatar |-> ""]

EditorInputs == {EditorInput(n, a) : n \in RawNames, a \in RawAges}

\* The records the editor hands back for these inputs.
EditorData == {get_personality_data(raw) : raw \in EditorInputs}

(***************************************************************************)
(* ChatApp.  The items of personality_list are the keys of personalities:  *)
(* every handler that changes the dict calls reload_personality_list,      *)
(* which also leaves the list without a current item.                      *)
(***************************************************************************)
traceVars == <<op, arg, ret, raised>>

\* The system prompt start_chat derives from a personality record.
system_prompt(p) ==
    "You are " \o p.name \o "\nAge: " \o p.age \o "\n"
    \o "Race/Species: " \o p.race \o "\nRole: " \o p.role \o "\n"
    \o "Gender: " \o p.gender \o "\nBackstory: " \o p.backstory \o "\n"
    \o "Default Mood: " \o p.mood \o "\nInterests: " \o Join(", ", p.interests) \o "\n"
    \o "Dialogue Style: " \o p.dialogue_style \o "\nOther Traits: "
    \o Join(", ", p.tags) \o "\n"
    \o "Answer as this character would."

\* What the input line can hold when Send is pressed.
RawMessages == {"", " hi "}

\* str(e) of the exception a failing model call raises.
LLM_ERROR == "out of memory"

\* Requests whose worker has started and whose response on_response_ready has not
\* handled yet.
InFlight == Cardinality({w \in DOMAIN workers : workers[w].pc # "done"}) + Len(signals)

\* personality_selected, on a click on the item of key.
PersonalitySelected(key) ==
    /\ key \in Keys(personalities)
    /\ list_current' = key
    /\ current_persona_key' = key
    /\ dialog' = ""
    /\ UNCHANGED <<personalities, disk, chat_session, sessions, input_enabled,
                   send_enabled, chat_display, workers, signals, sessionVars, traceVars>>

\* The check add_personality would make if it only required a name.
add_check_name_only(d, data) ==
    IF data.name = "" THEN "Name required." ELSE ""

\* The warning add_personality shows and returns on, "" when the record is accepted:
\* the name must be non-empty and not a key yet.
add_check(d, data) ==
    IF data.name = "" THEN "Name required."
    ELSE IF data.name \in Keys(d) THEN "A personality with this name already exists."
    ELSE ""

\* add_personality, the editor dialog accepted (with the record it hands back) or
\* cancelled.
AddPersonality(accepted, data, outcome) ==
    LET stored == DictSet(personalities, data.name, data)
        saved == save_personalities(disk, stored, outcome)
    IN
    /\ IF ~accepted
       THEN /\ outcome = <<"ok", 0>>
            /\ dialog' = ""
            /\ UNCHANGED <<personalities, disk, list_current>>
       ELSE IF add_check(personalities, data) # ""
       THEN /\ outcome = <<"ok", 0>>
            /\ dialog' = add_check(personalities, data)
            /\ UNCHANGED <<personalities, disk, list_current>>
       ELSE /\ outcome \in SaveOutcomes(stored)
            /\ personalities' = stored
            /\ disk' = saved.file
            /\ dialog' = IF saved.warning THEN SAVE_WARNING ELSE ""
            /\ list_current' = NONE
    /\ UNCHANGED <<current_persona_key, chat_session, sessions, input_enabled,
                   send_enabled, chat_display, workers, signals, sessionVars, traceVars>>

\* delete_personality, with the answer to the confirmation question.
DeletePersonality(yes, outcome) ==
    LET key == list_current
        left == DictPop(personalities, key)
        saved == save_personalities(disk, left, outcome)
    IN
    /\ list_current # NONE
    /\ outcome \in SaveOutcomes(left)
    /\ IF ~yes
       THEN /\ outcome = <<"ok", 0>>
            /\ dialog' = "Confirm Delete"
            /\ UNCHANGED <<personalities, disk, list_current, current_persona_key,
                           input_enabled, send_enabled>>
       ELSE /\ personalities' = left
            /\ disk' = saved.file
            /\ dialog' = IF saved.warning THEN SAVE_WARNING ELSE "Confirm Delete"
            /\ list_current' = NONE
            /\ IF current_persona_key = key
               THEN /\ current_persona_key' = NONE
                    /\ input_enabled' = FALSE
                    /\ send_enabled' = FALSE
               ELSE UNCHANGED <<current_persona_key, input_enabled, send_enabled>>
    /\ UNCHANGED <<chat_session, sessions, chat_display, workers, signals,
                   sessionVars, traceVars>>

\* What start_chat leaves of a widget's enabled state when the model does not load:
\* it returns right after the message box.
enabled_after_load_error(was) == was

\* start_chat; loads tells whether Llama(model_path) succeeds.
StartChat(loads) ==
    IF current_persona_key = NONE
    THEN /\ loads
         /\ dialog' = "Select Personality"
         /\ UNCHANGED <<appVars, sessionVars, traceVars>>
    ELSE IF ~loads
    THEN /\ dialog' = "Model Load Error"
         /\ input_enabled' = enabled_after_load_error(input_enabled)
         /\ send_enabled' = enabled_after_load_error(send_enabled)
         /\ UNCHANGED <<personalities, disk, list_current, current_persona_key,
                        chat_session, sessions, chat_display, workers, signals,
                        sessionVars, traceVars>>
    ELSE /\ Len(sessions) < MaxStarts
         /\ sessions' = Append(sessions,
                add_message(<<>>, "system",
                            system_prompt(DictGet(personalities, current_persona_key))))
         /\ chat_session' = Len(sessions) + 1
         /\ chat_display' = <<<<"System", "Chat started. Say hi!">>>>
         /\ input_enabled' = TRUE
         /\ send_enabled' = TRUE
         /\ dialog' = ""
         /\ UNCHANGED <<personalities, disk, list_current, current_persona_key,
                        workers, signals, sessionVars, traceVars>>

\* send_message, from returnPressed of the input line or a click on Send: the
\* signal comes only from an enabled widget.
SendMessage(raw) ==
    LET user_text == Strip(raw) IN
    /\ input_enabled \/ send_enabled
    /\ dialog' = ""
    /\ IF chat_session = 0 \/ user_text = ""
       THEN UNCHANGED <<sessions, chat_display, input_enabled, send_enabled, workers>>
       ELSE /\ Len(workers) < MaxSends
            /\ chat_display' = Append(chat_display, <<"You", user_text>>)
            /\ sessions' = [sessions EXCEPT ![chat_session] =
                               add_message(@, "user", user_text)]
            /\ send_enabled' = FALSE
            /\ input_enabled' = FALSE
            /\ workers' = Append(workers,
                   [pc |-> "start", user_text |-> user_text, sid |-> 0,
                    full_prompt |-> "", raised |-> FALSE])
    /\ UNCHANGED <<personalities, disk, list_current, current_persona_key,
                   chat_session, signals, sessionVars, traceVars>>

\* The worker thread enters generate_response on the session self.chat_session
\* names now, builds the prompt and hands it to the model.
WorkerCall(w) ==
    LET b == build_prompt(sessions[chat_session], workers[w].user_text) IN
    /\ workers[w].pc = "start"
    /\ sessions' = [sessions EXCEPT ![chat_session] = b.history]
    /\ workers' = [workers EXCEPT ![w].pc = "llm", ![w].sid = chat_session,
                                  ![w].full_prompt = b.ret]
    /\ UNCHANGED <<personalities, disk, list_current, current_persona_key,
                   chat_session, input_enabled, send_enabled, chat_display, signals,
                   dialog, sessionVars, traceVars>>

\* What the worker emits on response_ready, had it no except branch.
worker_emits_no_except(g) == IF g.raised THEN <<>> ELSE <<g.ret>>

\* What the worker emits on response_ready: the response, or "[Error] ..." when
\* generate_response raised.
worker_emits(g) == IF g.raised THEN <<"[Error] " \o LLM_ERROR>> ELSE <<g.ret>>

\* The model call returns or raises; generate_response finishes and the worker
\* emits response_ready, queued for the main thread.
WorkerReturn(w, outcome) ==
    LET g == gen_finish(sessions[workers[w].sid], outcome) IN
    /\ workers[w].pc = "llm"
    /\ sessions' = [sessions EXCEPT ![workers[w].sid] = g.history]
    /\ workers' = [workers EXCEPT ![w].pc = "done", ![w].raised = g.raised]
    /\ signals' = signals \o worker_emits(g)
    /\ UNCHANGED <<personalities, disk, list_current, current_persona_key,
                   chat_session, input_enabled, send_enabled, chat_display,
                   dialog, sessionVars, traceVars>>

\* on_response_ready, run by the main thread for the oldest queued emission.
OnResponseReady ==
    /\ signals # <<>>
    /\ chat_display' = Append(chat_display,
           <<IF current_persona_key # NONE THEN current_persona_key ELSE "Assistant",
             Head(signals)>>)
    /\ signals' = Tail(signals)
    /\ send_enabled' = TRUE
    /\ input_enabled' = TRUE
    /\ dialog' = ""
    /\ UNCHANGED <<personalities, disk, list_current, current_persona_key,
                   chat_session, sessions, workers, sessionVars, traceVars>>

\* ChatApp.__init__ over a given personalities.json: the personalities are loaded,
\* nothing is selected and chat is disabled.
AppInit(file) ==
    /\ disk = file
    /\ personalities = load_personalities(file).value
    /\ list_current = NONE
    /\ current_persona_key = NONE
    /\ chat_session = 0
    /\ sessions = <<>>
    /\ input_enabled = FALSE
    /\ send_enabled = FALSE
    /\ chat_display = <<>>
    /\ workers = <<>>
    /\ signals = <<>>
    /\ dialog = IF load_personalities(file).warning THEN "Could not load personalities"
                ELSE ""
    /\ history = <<>>
    /\ adds = 0
    /\ op = ""
    /\ arg = ""
    /\ ret = ""
    /\ raised = FALSE

NoFile == [exists |-> FALSE, chunks |-> <<>>]

\* What an earlier run saved: one personality.
SavedStore == <<<<"a", get_personality_data(EditorInput(" a ", "1"))>>>>

WorkerNext ==
    \E w \in DOMAIN workers :
        \/ WorkerCall(w)
        \/ \E o \in {" ok\n", RAISE} : WorkerReturn(w, o)

(***************************************************************************)
(* Spec: the chat flow of the UI over a store an earlier run saved: select *)
(* a personality, Start Chat, Send, Delete, the workers and the queued     *)
(* response_ready signal.  The save that Delete makes succeeds here;       *)
(* SpecStore covers the saves that fail.                                   *)
(***************************************************************************)
Init == AppInit([exists |-> TRUE, chunks |-> Serialize(SavedStore)])

Next ==
    \/ \E k \in {"a", "b"} : PersonalitySelected(k)
    \/ \E yes \in BOOLEAN, o \in {<<"ok", 0>>} :
          DeletePersonality(yes, o)
    \/ \E loads \in BOOLEAN : StartChat(loads)
    \/ \E raw \in RawMessages : SendMessage(raw)
    \/ WorkerNext
    \/ OnResponseReady

Spec == Init /\ [][Next]_vars

SpecFair == Spec /\ WF_vars(WorkerNext) /\ WF_vars(OnResponseReady)

(***************************************************************************)
(* SpecStore: personality management from an empty store: add, select,     *)
(* delete, each save succeeding or failing.                                *)
(***************************************************************************)
InitStore == AppInit(NoFile)

NextStore ==
    \/ \E k \in {"a", "b"} : PersonalitySelected(k)
    \/ \E acc \in BOOLEAN, data \in EditorData,
          o \in SaveOutcomesUpTo(Len(personalities) + 1) : AddPersonality(acc, data, o)
    \/ \E yes \in BOOLEAN, o \in SaveOutcomesUpTo(Len(personalities)) :
          DeletePersonality(yes, o)

SpecStore == InitStore /\ [][NextStore]_vars

(***************************************************************************)
(* Properties of _build_prompt, stated over the turns' positions in the    *)
(* history rather than over the filtered lists the code builds.            *)
(***************************************************************************)
SystemIdx(h) == {i \in DOMAIN h : h[i][1] = "system"}

NonSystemIdx(h) == {i \in DOMAIN h : h[i][1] # "system"}

\* The non-system turns followed by fewer than 10 non-system turns.
Last10Idx(h) ==
    {i \in NonSystemIdx(h) : Cardinality({j \in NonSystemIdx(h) : j > i}) < 10}

MinOf(S) == CHOOSE i \in S : \A j \in S : i <= j

RenderLine(t) == IF t[1] = "user" THEN "User: " \o t[2] ELSE "Assistant: " \o t[2]

\* The turns of h[1..n] whose position is in keep, one line each, in order.
RECURSIVE RenderUpTo(_, _, _)
RenderUpTo(h, n, keep) ==
    IF n = 0 THEN ""
    ELSE LET prev == RenderUpTo(h, n - 1, keep) IN
         IF n \notin keep THEN prev
         ELSE IF \A j \in keep : j >= n THEN RenderLine(h[n])
         ELSE prev \o "\n" \o RenderLine(h[n])

ExpectedPrompt(h, x, keep) ==
    (IF SystemIdx(h) = {} THEN "" ELSE h[MinOf(SystemIdx(h))][2] \o "\n")
        \o RenderUpTo(h, Len(h), keep) \o "\nUser: " \o x \o "\nAssistant: "

\* Whether t occurs in s.
Contains(s, t) ==
    \E i \in 1..(Len(s) + 1) : i + Len(t) - 1 <= Len(s) /\ SubSeq(s, i, i + Len(t) - 1) = t

\* The number of newlines in s.
CountNewlines(s) == Cardinality({i \in 1..Len(s) : SubSeq(s, i, i) = "\n"})

\* C1: with at most one system turn and at most 10 non-system turns, _build_prompt(x)
\* returns the system text and a newline (if there is a system turn), then every
\* non-system turn as "User: <text>" or "Assistant: <text>" in insertion order joined
\* by newlines, then "\nUser: " x "\nAssistant: " with the trailing space.
C1_PromptFormat ==
    (/\ op = "_build_prompt"
     /\ Cardinality(SystemIdx(history)) <= 1
     /\ Cardinality(NonSystemIdx(history)) <= 10)
    => ret = ExpectedPrompt(history, arg, NonSystemIdx(history))

C1_Witness ==
    /\ op = "_build_prompt"
    /\ Cardinality(SystemIdx(history)) = 1
    /\ Cardinality(NonSystemIdx(history)) = 10
    /\ \E i, j \in NonSystemIdx(history) : history[i][1] # history[j][1]
    /\ ret = ExpectedPrompt(history, arg, NonSystemIdx(history))

\* C2: with more than 10 non-system turns, _build_prompt renders exactly the last 10
\* of them in insertion order, wherever the system turns stand: the prompt has no
\* line for an older turn, and the text of an older turn occurs in it only where a
\* kept turn, the system text or the input has that text.
C2_LastTenOnly ==
    (op = "_build_prompt" /\ Cardinality(NonSystemIdx(history)) > 10)
    => /\ ret = ExpectedPrompt(history, arg, Last10Idx(history))
       /\ CountNewlines(ret) = (IF SystemIdx(history) = {} THEN 0 ELSE 1) + 9 + 2
       /\ \A i \in NonSystemIdx(history) \ Last10Idx(history) :
              \/ Contains(arg, history[i][2])
              \/ \E j \in Last10Idx(history) \cup SystemIdx(history) :
                     Contains(history[j][2], history[i][2])
              \/ ~Contains(ret, history[i][2])

C2_Witness ==
    /\ op = "_build_prompt"
    /\ Cardinality(NonSystemIdx(history)) > 10
    /\ \E s \in SystemIdx(history) : \E i, j \in NonSystemIdx(history) : i < s /\ s < j
    /\ \E i \in NonSystemIdx(history) \ Last10Idx(history) : ~Contains(ret, history[i][2])

\* C3: with two or more system turns, the prompt starts with the text of the first
\* system turn and a newline and is otherwise made of the kept non-system turns and
\* the input: a later system turn with another text leaves no trace in it.
C3_FirstSystemOnly ==
    (op = "_build_prompt" /\ Cardinality(SystemIdx(history)) >= 2)
    => LET first == MinOf(SystemIdx(history)) IN
       /\ ret = history[first][2] \o "\n"
                   \o RenderUpTo(history, Len(history), Last10Idx(history))
                   \o "\nUser: " \o arg \o "\nAssistant: "
       /\ \A j \in SystemIdx(history) :
              (j # first /\ history[j][2] # history[first][2])
                  => ~Contains(ret, history[j][2])

C3_Witness ==
    /\ op = "_build_prompt"
    /\ \E i, j \in SystemIdx(history) :
           /\ i = MinOf(SystemIdx(history))
           /\ i < j
           /\ history[i][2] # history[j][2]
           /\ Contains(ret, history[i][2])
           /\ ~Contains(ret, history[j][2])

\* C10: _build_prompt leaves the history as it was, contents and order, and a further
\* call in a row with the same input returns the same string.
C10_BuildPromptPure ==
    [][/\ op' = "_build_prompt" => history' = history
       /\ (op = "_build_prompt" /\ op' = "_build_prompt" /\ arg' = arg) => ret' = ret]_vars

C10_Witness ==
    /\ op = "_build_prompt"
    /\ SystemIdx(history) # {}
    /\ Cardinality(NonSystemIdx(history)) > 10

(***************************************************************************)
(* Properties of the UI's chat flow and of the personality store.          *)
(***************************************************************************)
\* C4: a generate_response whose model call raises appends nothing: every step of the
\* worker's call (building the prompt, the raising model call) and the
\* on_response_ready that shows its "[Error] ..." text leave every session's history
\* as it was.
C4_FailedCallKeepsHistory ==
    [][/\ \A w \in DOMAIN workers :
            /\ (workers[w].pc = "start" /\ workers'[w].pc = "llm") => sessions' = sessions
            /\ (workers[w].pc = "llm" /\ workers'[w].pc = "done" /\ workers'[w].raised)
                   => sessions' = sessions
       /\ (signals # <<>> /\ signals' = Tail(signals)) => sessions' = sessions]_vars

C4_Witness ==
    \E w \in DOMAIN workers :
        /\ workers[w].pc = "done"
        /\ workers[w].raised
        /\ signals = <<>>
        /\ chat_display # <<>>
        /\ chat_display[Len(chat_display)][2] = "[Error] " \o LLM_ERROR
        /\ Len(sessions[workers[w].sid]) = 2
        /\ sessions[workers[w].sid][2] = <<"user", workers[w].user_text>>

\* C5 (as claimed): at most one generation request is in flight at any time.
C5_AtMostOneInFlight == InFlight <= 1

\* C6: once a Send has started a worker, message submission is enabled again at some
\* later time, whether the model call returns or raises, given that the worker threads
\* and the queued response_ready signal get to run.
C6_EventuallyReenabled == (InFlight > 0) ~> (input_enabled /\ send_enabled)

C6_Witness ==
    /\ InFlight = 0
    /\ input_enabled
    /\ send_enabled
    /\ \E w \in DOMAIN workers : workers[w].raised
    /\ \E w \in DOMAIN workers : workers[w].pc = "done" /\ ~workers[w].raised

\* C7 (as claimed): a save_personalities that fails, reported as a warning, leaves
\* personalities.json exactly as it was.
C7_FailedSaveKeepsFile == [][dialog' = SAVE_WARNING => disk' = disk]_vars

\* C8 (as claimed): after a Start Chat whose model load fails, the input line and the
\* Send button are not enabled.
C8_LoadErrorDisablesChat ==
    dialog = "Model Load Error" => (~input_enabled /\ ~send_enabled)

\* C9: every key of personalities is a non-empty name, the name of its record, and
\* no key occurs twice; no step changes the record stored under a key that stays; an
\* add refused for an empty or an existing name leaves the dict and the file as they
\* were.
KeysAreNames ==
    /\ \A i \in DOMAIN personalities :
          personalities[i][1] # "" /\ personalities[i][1] = personalities[i][2].name
    /\ \A i, j \in DOMAIN personalities :
          personalities[i][1] = personalities[j][1] => i = j

C9_NamesUniqueAddKeeps ==
    [][/\ KeysAreNames'
       /\ \A k \in Keys(personalities) \cap Keys(personalities') :
             DictGet(personalities', k) = DictGet(personalities, k)
       /\ dialog' \in {"Name required.", "A personality with this name already exists."}
             => (personalities' = personalities /\ disk' = disk)]_vars

C9_Witness ==
    /\ dialog = "A personality with this name already exists."
    /\ Len(personalities) = 2
    /\ KeysAreNames
    /\ disk.exists

\* The number of places where t occurs in s.
Occurrences(s, t) ==
    Cardinality({i \in 1..Len(s) :
                    i + Len(t) - 1 <= Len(s) /\ SubSeq(s, i, i + Len(t) - 1) = t})

\* Whether s ends with t.
EndsWith(s, t) == Len(t) <= Len(s) /\ SubSeq(s, Len(s) - Len(t) + 1, Len(s)) = t

\* C11 (as claimed): the prompt a worker hands to the model for a message sent
\* through the UI ends with the line "User: <text>" and the cue "Assistant: ", and
\* holds that line exactly once.
C11_MessageRenderedOnce ==
    \A w \in DOMAIN workers :
        workers[w].pc # "start"
        => /\ EndsWith(workers[w].full_prompt,
                       "\nUser: " \o workers[w].user_text \o "\nAssistant: ")
           /\ Occurrences(workers[w].full_prompt,
                          "\nUser: " \o workers[w].user_text \o "\n") = 1

====
